---------------------------- MODULE Spec2Model ----------------------------
(* Model of check_duplicate.py (class DuplicateChecker).                   *)
(*                                                                         *)
(* A Python str is the sequence of its Unicode code points.  A set[str] is *)
(* a set of such sequences.  A dict that is iterated (source_pruned) is a  *)
(* sequence of [url, rules] entries in insertion order; a dict that is     *)
(* only looked up (rule_sources, report['sources']) is a function.         *)
EXTENDS Integers, Sequences, FiniteSets, TLC

VARIABLES
    \* ---- DuplicateChecker instance and one call of run() after another
    pc,             \* position of the main thread inside run()
    run_no,         \* calls of run() started on the instance: 0, 1 or 2
    sources,        \* run(): the list returned by load_sources
    task,           \* one process_source call per position of sources
    lock,           \* self.lock: 0 when free, else the task holding it
    source_pruned,  \* self.source_pruned, entries in insertion order
    rule_sources,   \* self.rule_sources: rule -> list of urls
    report,         \* run(): report['sources']
    \* ---- normalize applied to one line
    n_pc, n_line, n_result, n_again,
    \* ---- prune_subdomain applied to one rule set
    p_pc, p_rules, p_kept, p_again

runVars   == <<pc, run_no, sources, task, lock, source_pruned, rule_sources, report>>
normVars  == <<n_pc, n_line, n_result, n_again>>
pruneVars == <<p_pc, p_rules, p_kept, p_again>>
vars      == <<runVars, normVars, pruneVars>>

----------------------------------------------------------------------------
(* Bounds of the model.                                                    *)
MaxBody    == 6   \* longest <body> of the lines given to normalize
MaxRules   == 3   \* largest rule set given to prune_subdomain
MaxDepth   == 4   \* most labels in a domain of those rule sets

(* ThreadPoolExecutor(max_workers=8)                                       *)
max_workers == 8

----------------------------------------------------------------------------
(* str primitives.  A character is its Unicode code point; text is written  *)
(* Str(<<"a", "b">>) and turned into code points.                            *)

\* the characters U+0020..U+005F in order
Printable ==
    <<
        " ", "!", "\"", "#", "$", "%", "&", "'", "(", ")", "*", "+", ",",
        "-", ".", "/", "0", "1", "2", "3", "4", "5", "6", "7", "8", "9",
        ":", ";", "<", "=", ">", "?", "@", "A", "B", "C", "D", "E", "F",
        "G", "H", "I", "J", "K", "L", "M", "N", "O", "P", "Q", "R", "S",
        "T", "U", "V", "W", "X", "Y", "Z", "[", "\\", "]", "^", "_"
    >>

\* the characters U+0061..U+007E in order
PrintableLower ==
    <<
        "a", "b", "c", "d", "e", "f", "g", "h", "i", "j", "k", "l", "m",
        "n", "o", "p", "q", "r", "s", "t", "u", "v", "w", "x", "y", "z",
        "{", "|", "}", "~"
    >>

\* ord(c) for the characters that the texts of the model are written with
CP(c) ==
    CASE c = "\t" -> 9
      [] c = "\n" -> 10
      [] c = "\f" -> 12
      [] c = "\r" -> 13
      [] \E i \in 1..Len(Printable) : Printable[i] = c
                  -> 31 + CHOOSE i \in 1..Len(Printable) : Printable[i] = c
      [] OTHER    -> 96 + CHOOSE i \in 1..Len(PrintableLower) : PrintableLower[i] = c

Str(t) == [i \in 1..Len(t) |-> CP(t[i])]

Range(s)   == {s[i] : i \in 1..Len(s)}
AZ         == CP("a")..CP("z")
Digits     == CP("0")..CP("9")
AlNum      == AZ \cup Digits
Bars       == Str(<<"|", "|">>)
Caret      == Str(<<"^">>)
Dollar     == CP("$")
Dot        == CP(".")
Hyphen     == CP("-")
Hash       == CP("#")

\* the characters with str.isspace(), which str.strip() removes
Whitespace ==
    {9, 10, 11, 12, 13, 28, 29, 30, 31, 32, 133, 160, 5760}
        \cup (8192..8202) \cup {8232, 8233, 8239, 8287, 12288}

\* the line boundaries of str.splitlines(); \r\n counts as one
LineBreaks == {10, 11, 12, 13, 28, 29, 30, 133, 8232, 8233}

\* str.lower() outside ASCII: <<first, last, step, delta>> says that the
\* characters first, first + step, ..., last are lowered by adding delta
LowerRules ==
    <<
        <<192,214,1,32>>, <<216,222,1,32>>, <<256,302,2,1>>,
        <<306,310,2,1>>, <<313,327,2,1>>, <<330,374,2,1>>,
        <<376,376,1,-121>>, <<377,381,2,1>>, <<385,385,1,210>>,
        <<386,388,2,1>>, <<390,390,1,206>>, <<391,391,1,1>>,
        <<393,394,1,205>>, <<395,395,1,1>>, <<398,398,1,79>>,
        <<399,399,1,202>>, <<400,400,1,203>>, <<401,401,1,1>>,
        <<403,403,1,205>>, <<404,404,1,207>>, <<406,406,1,211>>,
        <<407,407,1,209>>, <<408,408,1,1>>, <<412,412,1,211>>,
        <<413,413,1,213>>, <<415,415,1,214>>, <<416,420,2,1>>,
        <<422,422,1,218>>, <<423,423,1,1>>, <<425,425,1,218>>,
        <<428,428,1,1>>, <<430,430,1,218>>, <<431,431,1,1>>,
        <<433,434,1,217>>, <<435,437,2,1>>, <<439,439,1,219>>,
        <<440,440,1,1>>, <<444,444,1,1>>, <<452,452,1,2>>, <<453,453,1,1>>,
        <<455,455,1,2>>, <<456,456,1,1>>, <<458,458,1,2>>, <<459,475,2,1>>,
        <<478,494,2,1>>, <<497,497,1,2>>, <<498,500,2,1>>,
        <<502,502,1,-97>>, <<503,503,1,-56>>, <<504,542,2,1>>,
        <<544,544,1,-130>>, <<546,562,2,1>>, <<570,570,1,10795>>,
        <<571,571,1,1>>, <<573,573,1,-163>>, <<574,574,1,10792>>,
        <<577,577,1,1>>, <<579,579,1,-195>>, <<580,580,1,69>>,
        <<581,581,1,71>>, <<582,590,2,1>>, <<880,882,2,1>>,
        <<886,886,1,1>>, <<895,895,1,116>>, <<902,902,1,38>>,
        <<904,906,1,37>>, <<908,908,1,64>>, <<910,911,1,63>>,
        <<913,929,1,32>>, <<932,939,1,32>>, <<975,975,1,8>>,
        <<984,1006,2,1>>, <<1012,1012,1,-60>>, <<1015,1015,1,1>>,
        <<1017,1017,1,-7>>, <<1018,1018,1,1>>, <<1021,1023,1,-130>>,
        <<1024,1039,1,80>>, <<1040,1071,1,32>>, <<1120,1152,2,1>>,
        <<1162,1214,2,1>>, <<1216,1216,1,15>>, <<1217,1229,2,1>>,
        <<1232,1326,2,1>>, <<1329,1366,1,48>>, <<4256,4293,1,7264>>,
        <<4295,4295,1,7264>>, <<4301,4301,1,7264>>, <<5024,5103,1,38864>>,
        <<5104,5109,1,8>>, <<7312,7354,1,-3008>>, <<7357,7359,1,-3008>>,
        <<7680,7828,2,1>>, <<7838,7838,1,-7615>>, <<7840,7934,2,1>>,
        <<7944,7951,1,-8>>, <<7960,7965,1,-8>>, <<7976,7983,1,-8>>,
        <<7992,7999,1,-8>>, <<8008,8013,1,-8>>, <<8025,8031,2,-8>>,
        <<8040,8047,1,-8>>, <<8072,8079,1,-8>>, <<8088,8095,1,-8>>,
        <<8104,8111,1,-8>>, <<8120,8121,1,-8>>, <<8122,8123,1,-74>>,
        <<8124,8124,1,-9>>, <<8136,8139,1,-86>>, <<8140,8140,1,-9>>,
        <<8152,8153,1,-8>>, <<8154,8155,1,-100>>, <<8168,8169,1,-8>>,
        <<8170,8171,1,-112>>, <<8172,8172,1,-7>>, <<8184,8185,1,-128>>,
        <<8186,8187,1,-126>>, <<8188,8188,1,-9>>, <<8486,8486,1,-7517>>,
        <<8490,8490,1,-8383>>, <<8491,8491,1,-8262>>, <<8498,8498,1,28>>,
        <<8544,8559,1,16>>, <<8579,8579,1,1>>, <<9398,9423,1,26>>,
        <<11264,11311,1,48>>, <<11360,11360,1,1>>,
        <<11362,11362,1,-10743>>, <<11363,11363,1,-3814>>,
        <<11364,11364,1,-10727>>, <<11367,11371,2,1>>,
        <<11373,11373,1,-10780>>, <<11374,11374,1,-10749>>,
        <<11375,11375,1,-10783>>, <<11376,11376,1,-10782>>,
        <<11378,11378,1,1>>, <<11381,11381,1,1>>, <<11390,11391,1,-10815>>,
        <<11392,11490,2,1>>, <<11499,11501,2,1>>, <<11506,11506,1,1>>,
        <<42560,42604,2,1>>, <<42624,42650,2,1>>, <<42786,42798,2,1>>,
        <<42802,42862,2,1>>, <<42873,42875,2,1>>, <<42877,42877,1,-35332>>,
        <<42878,42886,2,1>>, <<42891,42891,1,1>>, <<42893,42893,1,-42280>>,
        <<42896,42898,2,1>>, <<42902,42920,2,1>>, <<42922,42922,1,-42308>>,
        <<42923,42923,1,-42319>>, <<42924,42924,1,-42315>>,
        <<42925,42925,1,-42305>>, <<42926,42926,1,-42308>>,
        <<42928,42928,1,-42258>>, <<42929,42929,1,-42282>>,
        <<42930,42930,1,-42261>>, <<42931,42931,1,928>>,
        <<42932,42946,2,1>>, <<42948,42948,1,-48>>,
        <<42949,42949,1,-42307>>, <<42950,42950,1,-35384>>,
        <<42951,42953,2,1>>, <<42960,42960,1,1>>, <<42966,42968,2,1>>,
        <<42997,42997,1,1>>, <<65313,65338,1,32>>, <<66560,66599,1,40>>,
        <<66736,66771,1,40>>, <<66928,66938,1,39>>, <<66940,66954,1,39>>,
        <<66956,66962,1,39>>, <<66964,66965,1,39>>, <<68736,68786,1,64>>,
        <<71840,71871,1,32>>, <<93760,93791,1,32>>, <<125184,125217,1,34>>
    >>

\* the characters that are case-ignorable for the final-sigma rule
CaseIgnorableRanges ==
    <<
        <<39,39>>, <<46,46>>, <<58,58>>, <<94,94>>, <<96,96>>, <<168,168>>,
        <<173,173>>, <<175,175>>, <<180,180>>, <<183,184>>, <<688,879>>,
        <<884,885>>, <<890,890>>, <<900,901>>, <<903,903>>, <<1155,1161>>,
        <<1369,1369>>, <<1375,1375>>, <<1425,1469>>, <<1471,1471>>,
        <<1473,1474>>, <<1476,1477>>, <<1479,1479>>, <<1524,1524>>,
        <<1536,1541>>, <<1552,1562>>, <<1564,1564>>, <<1600,1600>>,
        <<1611,1631>>, <<1648,1648>>, <<1750,1757>>, <<1759,1768>>,
        <<1770,1773>>, <<1807,1807>>, <<1809,1809>>, <<1840,1866>>,
        <<1958,1968>>, <<2027,2037>>, <<2042,2042>>, <<2045,2045>>,
        <<2070,2093>>, <<2137,2139>>, <<2184,2184>>, <<2192,2193>>,
        <<2200,2207>>, <<2249,2306>>, <<2362,2362>>, <<2364,2364>>,
        <<2369,2376>>, <<2381,2381>>, <<2385,2391>>, <<2402,2403>>,
        <<2417,2417>>, <<2433,2433>>, <<2492,2492>>, <<2497,2500>>,
        <<2509,2509>>, <<2530,2531>>, <<2558,2558>>, <<2561,2562>>,
        <<2620,2620>>, <<2625,2626>>, <<2631,2632>>, <<2635,2637>>,
        <<2641,2641>>, <<2672,2673>>, <<2677,2677>>, <<2689,2690>>,
        <<2748,2748>>, <<2753,2757>>, <<2759,2760>>, <<2765,2765>>,
        <<2786,2787>>, <<2810,2815>>, <<2817,2817>>, <<2876,2876>>,
        <<2879,2879>>, <<2881,2884>>, <<2893,2893>>, <<2901,2902>>,
        <<2914,2915>>, <<2946,2946>>, <<3008,3008>>, <<3021,3021>>,
        <<3072,3072>>, <<3076,3076>>, <<3132,3132>>, <<3134,3136>>,
        <<3142,3144>>, <<3146,3149>>, <<3157,3158>>, <<3170,3171>>,
        <<3201,3201>>, <<3260,3260>>, <<3263,3263>>, <<3270,3270>>,
        <<3276,3277>>, <<3298,3299>>, <<3328,3329>>, <<3387,3388>>,
        <<3393,3396>>, <<3405,3405>>, <<3426,3427>>, <<3457,3457>>,
        <<3530,3530>>, <<3538,3540>>, <<3542,3542>>, <<3633,3633>>,
        <<3636,3642>>, <<3654,3662>>, <<3761,3761>>, <<3764,3772>>,
        <<3782,3782>>, <<3784,3789>>, <<3864,3865>>, <<3893,3893>>,
        <<3895,3895>>, <<3897,3897>>, <<3953,3966>>, <<3968,3972>>,
        <<3974,3975>>, <<3981,3991>>, <<3993,4028>>, <<4038,4038>>,
        <<4141,4144>>, <<4146,4151>>, <<4153,4154>>, <<4157,4158>>,
        <<4184,4185>>, <<4190,4192>>, <<4209,4212>>, <<4226,4226>>,
        <<4229,4230>>, <<4237,4237>>, <<4253,4253>>, <<4348,4348>>,
        <<4957,4959>>, <<5906,5908>>, <<5938,5939>>, <<5970,5971>>,
        <<6002,6003>>, <<6068,6069>>, <<6071,6077>>, <<6086,6086>>,
        <<6089,6099>>, <<6103,6103>>, <<6109,6109>>, <<6155,6159>>,
        <<6211,6211>>, <<6277,6278>>, <<6313,6313>>, <<6432,6434>>,
        <<6439,6440>>, <<6450,6450>>, <<6457,6459>>, <<6679,6680>>,
        <<6683,6683>>, <<6742,6742>>, <<6744,6750>>, <<6752,6752>>,
        <<6754,6754>>, <<6757,6764>>, <<6771,6780>>, <<6783,6783>>,
        <<6823,6823>>, <<6832,6862>>, <<6912,6915>>, <<6964,6964>>,
        <<6966,6970>>, <<6972,6972>>, <<6978,6978>>, <<7019,7027>>,
        <<7040,7041>>, <<7074,7077>>, <<7080,7081>>, <<7083,7085>>,
        <<7142,7142>>, <<7144,7145>>, <<7149,7149>>, <<7151,7153>>,
        <<7212,7219>>, <<7222,7223>>, <<7288,7293>>, <<7376,7378>>,
        <<7380,7392>>, <<7394,7400>>, <<7405,7405>>, <<7412,7412>>,
        <<7416,7417>>, <<7468,7530>>, <<7544,7544>>, <<7579,7679>>,
        <<8125,8125>>, <<8127,8129>>, <<8141,8143>>, <<8157,8159>>,
        <<8173,8175>>, <<8189,8190>>, <<8203,8207>>, <<8216,8217>>,
        <<8228,8228>>, <<8231,8231>>, <<8234,8238>>, <<8288,8292>>,
        <<8294,8303>>, <<8305,8305>>, <<8319,8319>>, <<8336,8348>>,
        <<8400,8432>>, <<11388,11389>>, <<11503,11505>>, <<11631,11631>>,
        <<11647,11647>>, <<11744,11775>>, <<11823,11823>>, <<12293,12293>>,
        <<12330,12333>>, <<12337,12341>>, <<12347,12347>>, <<12441,12446>>,
        <<12540,12542>>, <<40981,40981>>, <<42232,42237>>, <<42508,42508>>,
        <<42607,42610>>, <<42612,42621>>, <<42623,42623>>, <<42652,42655>>,
        <<42736,42737>>, <<42752,42785>>, <<42864,42864>>, <<42888,42890>>,
        <<42994,42996>>, <<43000,43001>>, <<43010,43010>>, <<43014,43014>>,
        <<43019,43019>>, <<43045,43046>>, <<43052,43052>>, <<43204,43205>>,
        <<43232,43249>>, <<43263,43263>>, <<43302,43309>>, <<43335,43345>>,
        <<43392,43394>>, <<43443,43443>>, <<43446,43449>>, <<43452,43453>>,
        <<43471,43471>>, <<43493,43494>>, <<43561,43566>>, <<43569,43570>>,
        <<43573,43574>>, <<43587,43587>>, <<43596,43596>>, <<43632,43632>>,
        <<43644,43644>>, <<43696,43696>>, <<43698,43700>>, <<43703,43704>>,
        <<43710,43711>>, <<43713,43713>>, <<43741,43741>>, <<43756,43757>>,
        <<43763,43764>>, <<43766,43766>>, <<43867,43871>>, <<43881,43883>>,
        <<44005,44005>>, <<44008,44008>>, <<44013,44013>>, <<64286,64286>>,
        <<64434,64450>>, <<65024,65039>>, <<65043,65043>>, <<65056,65071>>,
        <<65106,65106>>, <<65109,65109>>, <<65279,65279>>, <<65287,65287>>,
        <<65294,65294>>, <<65306,65306>>, <<65342,65342>>, <<65344,65344>>,
        <<65392,65392>>, <<65438,65439>>, <<65507,65507>>, <<65529,65531>>,
        <<66045,66045>>, <<66272,66272>>, <<66422,66426>>, <<67456,67461>>,
        <<67463,67504>>, <<67506,67514>>, <<68097,68099>>, <<68101,68102>>,
        <<68108,68111>>, <<68152,68154>>, <<68159,68159>>, <<68325,68326>>,
        <<68900,68903>>, <<69291,69292>>, <<69446,69456>>, <<69506,69509>>,
        <<69633,69633>>, <<69688,69702>>, <<69744,69744>>, <<69747,69748>>,
        <<69759,69761>>, <<69811,69814>>, <<69817,69818>>, <<69821,69821>>,
        <<69826,69826>>, <<69837,69837>>, <<69888,69890>>, <<69927,69931>>,
        <<69933,69940>>, <<70003,70003>>, <<70016,70017>>, <<70070,70078>>,
        <<70089,70092>>, <<70095,70095>>, <<70191,70193>>, <<70196,70196>>,
        <<70198,70199>>, <<70206,70206>>, <<70367,70367>>, <<70371,70378>>,
        <<70400,70401>>, <<70459,70460>>, <<70464,70464>>, <<70502,70508>>,
        <<70512,70516>>, <<70712,70719>>, <<70722,70724>>, <<70726,70726>>,
        <<70750,70750>>, <<70835,70840>>, <<70842,70842>>, <<70847,70848>>,
        <<70850,70851>>, <<71090,71093>>, <<71100,71101>>, <<71103,71104>>,
        <<71132,71133>>, <<71219,71226>>, <<71229,71229>>, <<71231,71232>>,
        <<71339,71339>>, <<71341,71341>>, <<71344,71349>>, <<71351,71351>>,
        <<71453,71455>>, <<71458,71461>>, <<71463,71467>>, <<71727,71735>>,
        <<71737,71738>>, <<71995,71996>>, <<71998,71998>>, <<72003,72003>>,
        <<72148,72151>>, <<72154,72155>>, <<72160,72160>>, <<72193,72202>>,
        <<72243,72248>>, <<72251,72254>>, <<72263,72263>>, <<72273,72278>>,
        <<72281,72283>>, <<72330,72342>>, <<72344,72345>>, <<72752,72758>>,
        <<72760,72765>>, <<72767,72767>>, <<72850,72871>>, <<72874,72880>>,
        <<72882,72883>>, <<72885,72886>>, <<73009,73014>>, <<73018,73018>>,
        <<73020,73021>>, <<73023,73029>>, <<73031,73031>>, <<73104,73105>>,
        <<73109,73109>>, <<73111,73111>>, <<73459,73460>>, <<78896,78904>>,
        <<92912,92916>>, <<92976,92982>>, <<92992,92995>>, <<94031,94031>>,
        <<94095,94111>>, <<94176,94177>>, <<94179,94180>>,
        <<110576,110579>>, <<110581,110587>>, <<110589,110590>>,
        <<113821,113822>>, <<113824,113827>>, <<118528,118573>>,
        <<118576,118598>>, <<119143,119145>>, <<119155,119170>>,
        <<119173,119179>>, <<119210,119213>>, <<119362,119364>>,
        <<121344,121398>>, <<121403,121452>>, <<121461,121461>>,
        <<121476,121476>>, <<121499,121503>>, <<121505,121519>>,
        <<122880,122886>>, <<122888,122904>>, <<122907,122913>>,
        <<122915,122916>>, <<122918,122922>>, <<123184,123197>>,
        <<123566,123566>>, <<123628,123631>>, <<125136,125142>>,
        <<125252,125259>>, <<127995,127999>>, <<917505,917505>>,
        <<917536,917631>>, <<917760,917999>>
    >>

\* the cased characters that are not case-ignorable
CasedRanges ==
    <<
        <<65,90>>, <<97,122>>, <<170,170>>, <<181,181>>, <<186,186>>,
        <<192,214>>, <<216,246>>, <<248,442>>, <<444,447>>, <<452,659>>,
        <<661,687>>, <<880,883>>, <<886,887>>, <<891,893>>, <<895,895>>,
        <<902,902>>, <<904,906>>, <<908,908>>, <<910,929>>, <<931,1013>>,
        <<1015,1153>>, <<1162,1327>>, <<1329,1366>>, <<1376,1416>>,
        <<4256,4293>>, <<4295,4295>>, <<4301,4301>>, <<4304,4346>>,
        <<4349,4351>>, <<5024,5109>>, <<5112,5117>>, <<7296,7304>>,
        <<7312,7354>>, <<7357,7359>>, <<7424,7467>>, <<7531,7543>>,
        <<7545,7578>>, <<7680,7957>>, <<7960,7965>>, <<7968,8005>>,
        <<8008,8013>>, <<8016,8023>>, <<8025,8025>>, <<8027,8027>>,
        <<8029,8029>>, <<8031,8061>>, <<8064,8116>>, <<8118,8124>>,
        <<8126,8126>>, <<8130,8132>>, <<8134,8140>>, <<8144,8147>>,
        <<8150,8155>>, <<8160,8172>>, <<8178,8180>>, <<8182,8188>>,
        <<8450,8450>>, <<8455,8455>>, <<8458,8467>>, <<8469,8469>>,
        <<8473,8477>>, <<8484,8484>>, <<8486,8486>>, <<8488,8488>>,
        <<8490,8493>>, <<8495,8500>>, <<8505,8505>>, <<8508,8511>>,
        <<8517,8521>>, <<8526,8526>>, <<8544,8575>>, <<8579,8580>>,
        <<9398,9449>>, <<11264,11387>>, <<11390,11492>>, <<11499,11502>>,
        <<11506,11507>>, <<11520,11557>>, <<11559,11559>>, <<11565,11565>>,
        <<42560,42605>>, <<42624,42651>>, <<42786,42863>>, <<42865,42887>>,
        <<42891,42894>>, <<42896,42954>>, <<42960,42961>>, <<42963,42963>>,
        <<42965,42969>>, <<42997,42998>>, <<43002,43002>>, <<43824,43866>>,
        <<43872,43880>>, <<43888,43967>>, <<64256,64262>>, <<64275,64279>>,
        <<65313,65338>>, <<65345,65370>>, <<66560,66639>>, <<66736,66771>>,
        <<66776,66811>>, <<66928,66938>>, <<66940,66954>>, <<66956,66962>>,
        <<66964,66965>>, <<66967,66977>>, <<66979,66993>>, <<66995,67001>>,
        <<67003,67004>>, <<68736,68786>>, <<68800,68850>>, <<71840,71903>>,
        <<93760,93823>>, <<119808,119892>>, <<119894,119964>>,
        <<119966,119967>>, <<119970,119970>>, <<119973,119974>>,
        <<119977,119980>>, <<119982,119993>>, <<119995,119995>>,
        <<119997,120003>>, <<120005,120069>>, <<120071,120074>>,
        <<120077,120084>>, <<120086,120092>>, <<120094,120121>>,
        <<120123,120126>>, <<120128,120132>>, <<120134,120134>>,
        <<120138,120144>>, <<120146,120485>>, <<120488,120512>>,
        <<120514,120538>>, <<120540,120570>>, <<120572,120596>>,
        <<120598,120628>>, <<120630,120654>>, <<120656,120686>>,
        <<120688,120712>>, <<120714,120744>>, <<120746,120770>>,
        <<120772,120779>>, <<122624,122633>>, <<122635,122654>>,
        <<125184,125251>>, <<127280,127305>>, <<127312,127337>>,
        <<127344,127369>>
    >>

InRanges(c, R) == \E k \in 1..Len(R) : R[k][1] <= c /\ c <= R[k][2]

\* chr(c).lower(): one character, but two for U+0130
LowerChar(c) ==
    IF c < 128 THEN <<(IF 65 <= c /\ c <= 90 THEN c + 32 ELSE c)>>
    ELSE IF c = 304 THEN <<105, 775>>
    ELSE IF c = 931 THEN <<963>>
    ELSE IF \E k \in 1..Len(LowerRules) :
               /\ LowerRules[k][1] <= c /\ c <= LowerRules[k][2]
               /\ (c - LowerRules[k][1]) % LowerRules[k][3] = 0
         THEN LET k == CHOOSE k \in 1..Len(LowerRules) :
                           /\ LowerRules[k][1] <= c /\ c <= LowerRules[k][2]
                           /\ (c - LowerRules[k][1]) % LowerRules[k][3] = 0
              IN  <<c + LowerRules[k][4]>>
    ELSE <<c>>

\* str.lower() on U+03A3 at position i of s: a final sigma follows a cased
\* character and is not followed by one, case-ignorable characters skipped
FinalSigma(s, i) ==
    LET before == {j \in 1..(i - 1) : ~InRanges(s[j], CaseIgnorableRanges)}
        after  == {j \in (i + 1)..Len(s) : ~InRanges(s[j], CaseIgnorableRanges)}
    IN  /\ before # {}
        /\ InRanges(s[CHOOSE j \in before : \A m \in before : m <= j], CasedRanges)
        /\ ~(/\ after # {}
             /\ InRanges(s[CHOOSE j \in after : \A m \in after : j <= m], CasedRanges))

RECURSIVE LowerFrom(_, _)
LowerFrom(s, i) ==
    IF i > Len(s) THEN <<>>
    ELSE (IF s[i] = 931 /\ FinalSigma(s, i) THEN <<962>> ELSE LowerChar(s[i]))
            \o LowerFrom(s, i + 1)

\* str.lower()
lower(s) == LowerFrom(s, 1)

RECURSIVE lstrip(_)
lstrip(s) ==
    IF s = <<>> THEN s
    ELSE IF Head(s) \in Whitespace THEN lstrip(Tail(s)) ELSE s

RECURSIVE rstrip(_)
rstrip(s) ==
    IF s = <<>> THEN s
    ELSE IF s[Len(s)] \in Whitespace THEN rstrip(SubSeq(s, 1, Len(s) - 1)) ELSE s

\* str.strip()
strip(s) == rstrip(lstrip(s))

startswith(s, p) == Len(s) >= Len(p) /\ SubSeq(s, 1, Len(p)) = p
endswith(s, p)   == Len(s) >= Len(p) /\ SubSeq(s, Len(s) - Len(p) + 1, Len(s)) = p

\* s[2:-1]
Slice2m1(s) == SubSeq(s, 3, Len(s) - 1)

\* s.split(c): the pieces between occurrences of c, empty pieces included
RECURSIVE split(_, _)
split(s, c) ==
    IF \A i \in 1..Len(s) : s[i] # c THEN <<s>>
    ELSE LET k == CHOOSE i \in 1..Len(s) :
                      s[i] = c /\ \A j \in 1..(i - 1) : s[j] # c
         IN  <<SubSeq(s, 1, k - 1)>> \o split(SubSeq(s, k + 1, Len(s)), c)

\* c.join(parts)
RECURSIVE join(_, _)
join(parts, c) ==
    IF parts = <<>> THEN <<>>
    ELSE IF Len(parts) = 1 THEN parts[1]
    ELSE parts[1] \o <<c>> \o join(Tail(parts), c)

\* parts[i:]
From(parts, i) == SubSeq(parts, i + 1, Len(parts))

\* str.splitlines(): a break ends the current line (\r\n is one break); text
\* after the last break is a line only when it is not empty
RECURSIVE SplitLinesFrom(_, _)
SplitLinesFrom(rest, cur) ==
    IF rest = <<>> THEN (IF cur = <<>> THEN <<>> ELSE <<cur>>)
    ELSE IF Len(rest) >= 2 /\ rest[1] = 13 /\ rest[2] = 10
         THEN <<cur>> \o SplitLinesFrom(SubSeq(rest, 3, Len(rest)), <<>>)
    ELSE IF Head(rest) \in LineBreaks
         THEN <<cur>> \o SplitLinesFrom(Tail(rest), <<>>)
    ELSE SplitLinesFrom(Tail(rest), Append(cur, Head(rest)))

splitlines(s) == SplitLinesFrom(s, <<>>)

----------------------------------------------------------------------------
\* a wrong pattern: [a-z0-9]([a-z0-9-]*)? lets a label end with a hyphen
RegexDelta_hyphen_end(q, c) ==
    CASE q = "start"  -> IF c \in AlNum THEN {"alnum"} ELSE {}
      [] q = "alnum"  -> IF c \in AlNum THEN {"alnum"}
                         ELSE IF c = Hyphen THEN {"hyphen"}
                         ELSE IF c = Dot THEN {"dot"} ELSE {}
      [] q = "hyphen" -> IF c \in AlNum THEN {"alnum"}
                         ELSE IF c = Hyphen THEN {"hyphen"}
                         ELSE IF c = Dot THEN {"dot"} ELSE {}
      [] q = "dot"    -> (IF c \in AlNum THEN {"alnum"} ELSE {})
                         \cup (IF c \in AZ THEN {"tld1"} ELSE {})
      [] q = "tld1"   -> IF c \in AZ THEN {"tld2"} ELSE {}
      [] q = "tld2"   -> IF c \in AZ THEN {"tld2"} ELSE {}

(* normalize, line 23: the regular expression                              *)
(*   ^[a-z0-9]([a-z0-9-]*[a-z0-9])?(\.[a-z0-9]([a-z0-9-]*[a-z0-9])?)*     *)
(*    \.[a-z]{2,}$                                                         *)
(* as the automaton of its positions:                                      *)
(*   "start"  before the first character of the first label                *)
(*   "alnum"  inside a label, the last character read is [a-z0-9]          *)
(*   "hyphen" inside a label, the last character read is '-'               *)
(*   "dot"    a '\.' was read: a further label or the final [a-z]{2,}      *)
(*   "tld1"   one character of [a-z]{2,} read                              *)
(*   "tld2"   two or more characters of [a-z]{2,} read (accepting)         *)
RegexDelta(q, c) ==
    CASE q = "start"  -> IF c \in AlNum THEN {"alnum"} ELSE {}
      [] q = "alnum"  -> IF c \in AlNum THEN {"alnum"}
                         ELSE IF c = Hyphen THEN {"hyphen"}
                         ELSE IF c = Dot THEN {"dot"} ELSE {}
      [] q = "hyphen" -> IF c \in AlNum THEN {"alnum"}
                         ELSE IF c = Hyphen THEN {"hyphen"} ELSE {}
      [] q = "dot"    -> (IF c \in AlNum THEN {"alnum"} ELSE {})
                         \cup (IF c \in AZ THEN {"tld1"} ELSE {})
      [] q = "tld1"   -> IF c \in AZ THEN {"tld2"} ELSE {}
      [] q = "tld2"   -> IF c \in AZ THEN {"tld2"} ELSE {}

RECURSIVE RegexRun(_, _)
RegexRun(qs, s) ==
    IF s = <<>> \/ qs = {} THEN qs
    ELSE RegexRun(UNION {RegexDelta(q, Head(s)) : q \in qs}, Tail(s))

\* re.fullmatch(<the pattern>, domain) is not None
fullmatch(domain) == "tld2" \in RegexRun({"start"}, domain)

normalize(line0) ==
    LET line == lower(strip(line0)) IN
    IF ~(startswith(line, Bars) /\ endswith(line, Caret)
         /\ Dollar \notin Range(line))
    THEN <<>>
    ELSE LET domain == Slice2m1(line) IN
         IF ~fullmatch(domain) THEN <<>> ELSE line

----------------------------------------------------------------------------
(* prune_subdomain                                                         *)

\* a wrong prune_subdomain: only the immediate parent is looked up
prune_parent_only(rules) ==
    IF rules = {} THEN rules
    ELSE LET domains == {Slice2m1(rule) : rule \in rules} IN
         {rule \in rules :
            LET parts == split(Slice2m1(rule), Dot) IN
            ~(Len(parts) > 1 /\ join(From(parts, 1), Dot) \in domains)}

\* a wrong prune_subdomain: a parent is any domain the text of the domain
\* ends with
prune_text_suffix(rules) ==
    IF rules = {} THEN rules
    ELSE LET domains == {Slice2m1(rule) : rule \in rules} IN
         {rule \in rules :
            ~\E d \in domains : d # Slice2m1(rule) /\ endswith(Slice2m1(rule), d)}

\* a wrong prune_subdomain: range(2, len(parts)) skips the immediate parent
prune_skip_parent(rules) ==
    IF rules = {} THEN rules
    ELSE LET domains == {Slice2m1(rule) : rule \in rules} IN
         {rule \in rules :
            LET parts == split(Slice2m1(rule), Dot) IN
            ~\E i \in 2..(Len(parts) - 1) : join(From(parts, i), Dot) \in domains}

\* a wrong prune_subdomain: the test is inverted, rules with a parent are kept
prune_inverted(rules) ==
    IF rules = {} THEN rules
    ELSE LET domains == {Slice2m1(rule) : rule \in rules} IN
         {rule \in rules :
            LET parts == split(Slice2m1(rule), Dot) IN
            \E i \in 1..(Len(parts) - 1) : join(From(parts, i), Dot) \in domains}

prune_subdomain(rules) ==
    IF rules = {} THEN rules
    ELSE LET domains == {Slice2m1(rule) : rule \in rules} IN
         {rule \in rules :
            LET parts == split(Slice2m1(rule), Dot) IN
            ~\E i \in 1..(Len(parts) - 1) : join(From(parts, i), Dot) \in domains}

----------------------------------------------------------------------------
(* extract_rules                                                           *)
extract_rules(content) ==
    {normalize(line) : line \in {l \in Range(splitlines(content)) : normalize(l) # <<>>}}

----------------------------------------------------------------------------
(* download: what requests.get can answer.  status "ok" is a response that *)
(* raise_for_status accepts, "http_error" one it rejects (the body is      *)
(* still there), "exception" a timeout or connection error.                *)

\* "||b.a.x.io^\n||x.io^\n||bad^"
TextA == Str(<<"|","|","b",".","a",".","x",".","i","o","^","\n","|","|","x",".","i","o","^","\n","|","|","b","a","d","^">>)
\* " ||X.IO^ \r\n||t.co^\n||q.t.co^$important\n"
TextB == Str(<<" ","|","|","X",".","I","O","^"," ","\r","\n","|","|","t",".","c","o","^","\n","|","|","q",".","t",".","c","o","^","$","i","m","p","o","r","t","a","n","t","\n">>)
\* "||x.io^\n||e.org^", the body of an error page
TextE == Str(<<"|","|","x",".","i","o","^","\n","|","|","e",".","o","r","g","^">>)

Responses ==
    { [status |-> "ok",         text |-> TextA],
      [status |-> "ok",         text |-> TextB],
      [status |-> "http_error", text |-> TextE],
      [status |-> "exception",  text |-> <<>>] }

NoResponse == [status |-> "none", text |-> <<>>]

\* requests.get(url): an empty url has no scheme and raises before anything
\* is sent
ResponsesTo(url) ==
    IF url = <<>> THEN {[status |-> "exception", text |-> <<>>]} ELSE Responses

download(resp) ==
    IF resp.status = "ok" THEN resp.text ELSE <<>>

----------------------------------------------------------------------------
(* dict operations on source_pruned                                        *)
Keys(d) == {d[i].url : i \in 1..Len(d)}

DictGet(d, k) == d[CHOOSE i \in 1..Len(d) : d[i].url = k].rules

\* d[k] = v: an existing key keeps its place, a new key goes last
DictSet(d, k, v) ==
    IF k \in Keys(d)
    THEN [i \in 1..Len(d) |-> IF d[i].url = k THEN [url |-> k, rules |-> v] ELSE d[i]]
    ELSE Append(d, [url |-> k, rules |-> v])

Max(a, b) == IF a >= b THEN a ELSE b

----------------------------------------------------------------------------
(* run, lines 90-104: the aggregation stage                                *)

\* for rule in rules: self.rule_sources.setdefault(rule, []).append(src)
AppendSource(rs, e) ==
    [r \in (DOMAIN rs) \cup e.rules |->
        IF r \in e.rules
        THEN (IF r \in DOMAIN rs THEN rs[r] ELSE <<>>) \o <<e.url>>
        ELSE rs[r]]

\* for src, rules in self.source_pruned.items(): ...
RECURSIVE BuildRuleSources(_, _)
BuildRuleSources(rs, d) ==
    IF d = <<>> THEN rs
    ELSE BuildRuleSources(AppendSource(rs, Head(d)), Tail(d))

\* a wrong report: distinct is taken from the size of the global index
BuildReport_global_distinct(d, rs) ==
    [u \in Keys(d) |->
        LET rules     == DictGet(d, u)
            duplicate == Cardinality({r \in rules : Len(rs[r]) > 1})
        IN  [total          |-> Cardinality(rules),
             duplicate      |-> duplicate,
             distinct       |-> Cardinality(DOMAIN rs) - duplicate,
             duplicate_rate |-> [num |-> duplicate,
                                 den |-> Max(Cardinality(rules), 1)]]]

\* report['sources']; duplicate_rate is the fraction num/den
BuildReport(d, rs) ==
    [u \in Keys(d) |->
        LET rules     == DictGet(d, u)
            duplicate == Cardinality({r \in rules : Len(rs[r]) > 1})
        IN  [total          |-> Cardinality(rules),
             duplicate      |-> duplicate,
             distinct       |-> Cardinality(rules) - duplicate,
             duplicate_rate |-> [num |-> duplicate,
                                 den |-> Max(Cardinality(rules), 1)]]]

----------------------------------------------------------------------------
(* load_sources: sources.txt as it is on disk.  A file is described by    *)
(* whether it can be opened and by what its bytes decode to: utf8 is their *)
(* UTF-8 decoding (a byte order mark included) and gbk their GBK decoding, *)
(* each Unreadable when the bytes are not valid in that encoding.          *)

ByteOrderMark == 65279

Unreadable == <<-1>>

UrlA == Str(<<"h","t","t","p",":","/","/","a">>)
UrlB == Str(<<"h","t","t","p",":","/","/","b">>)

\* b"http://a\nhttp://b\n"
FileTwo ==
    [opens |-> TRUE,
     utf8  |-> UrlA \o Str(<<"\n">>) \o UrlB \o Str(<<"\n">>),
     gbk   |-> UrlA \o Str(<<"\n">>) \o UrlB \o Str(<<"\n">>)]

\* b"\xef\xbb\xbf# mirrors\r\nhttp://a # main\r\n\r\nhttp://a": one source
\* twice; the bytes of the byte order mark are not valid GBK
FileSameTwice ==
    [opens |-> TRUE,
     utf8  |-> <<ByteOrderMark>>
                 \o Str(<<"#"," ","m","i","r","r","o","r","s","\r","\n">>)
                 \o UrlA \o Str(<<" ","#"," ","m","a","i","n","\r","\n","\r","\n">>)
                 \o UrlA,
     gbk   |-> Unreadable]

\* b" # indented\nhttp://b\n": the comment line is kept as an empty url
FileIndentedComment ==
    [opens |-> TRUE,
     utf8  |-> Str(<<" ","#"," ","i","n","d","e","n","t","e","d","\n">>)
                 \o UrlB \o Str(<<"\n">>),
     gbk   |-> Str(<<" ","#"," ","i","n","d","e","n","t","e","d","\n">>)
                 \o UrlB \o Str(<<"\n">>)]

\* b"http://a # \xd6\xf7\nhttp://b\n": a comment with U+4E3B written in
\* GBK, bytes that are not valid UTF-8
FileGbk ==
    [opens |-> TRUE,
     utf8  |-> Unreadable,
     gbk   |-> UrlA \o Str(<<" ","#"," ">>) \o <<20027>> \o Str(<<"\n">>)
                 \o UrlB \o Str(<<"\n">>)]

\* b"\xff\xff\x80\n"
FileBinary  == [opens |-> TRUE,  utf8 |-> Unreadable, gbk |-> Unreadable]

\* no sources.txt
FileMissing == [opens |-> FALSE, utf8 |-> Unreadable, gbk |-> Unreadable]

SourceFiles ==
    {FileTwo, FileSameTwice, FileIndentedComment, FileGbk, FileBinary, FileMissing}

Encodings == <<"utf-8-sig", "utf-8", "gbk">>

\* text mode, newline=None: "\r\n" and "\r" are read as "\n"
RECURSIVE UniversalNewlines(_)
UniversalNewlines(text) ==
    IF text = <<>> THEN <<>>
    ELSE IF Len(text) >= 2 /\ text[1] = 13 /\ text[2] = 10
         THEN <<10>> \o UniversalNewlines(SubSeq(text, 3, Len(text)))
    ELSE IF Head(text) = 13 THEN <<10>> \o UniversalNewlines(Tail(text))
    ELSE <<Head(text)>> \o UniversalNewlines(Tail(text))

\* the decoding of the bytes of the file under enc; utf-8-sig is utf-8
\* without a leading byte order mark
Decoded(file, enc) ==
    IF enc = "gbk" THEN file.gbk
    ELSE IF file.utf8 = Unreadable THEN Unreadable
    ELSE IF enc = "utf-8-sig" /\ file.utf8 # <<>> /\ Head(file.utf8) = ByteOrderMark
         THEN Tail(file.utf8)
    ELSE file.utf8

\* open(file, 'r', encoding=enc) and the reading of the whole file: the
\* text, or Unreadable when open or the decoding raises
ReadAs(file, enc) ==
    IF ~file.opens \/ Decoded(file, enc) = Unreadable THEN Unreadable
    ELSE UniversalNewlines(Decoded(file, enc))

\* for line in f: the lines of the text read, each with its "\n"
RECURSIVE FileLinesFrom(_, _)
FileLinesFrom(rest, cur) ==
    IF rest = <<>> THEN (IF cur = <<>> THEN <<>> ELSE <<cur>>)
    ELSE IF Head(rest) = 10
         THEN <<Append(cur, 10)>> \o FileLinesFrom(Tail(rest), <<>>)
    ELSE FileLinesFrom(Tail(rest), Append(cur, Head(rest)))

\* [line.split('#')[0].strip() for line in f
\*      if line.strip() and not line.startswith('#')]
SourceLines(text) ==
    LET kept == SelectSeq(FileLinesFrom(text, <<>>),
                          LAMBDA line : strip(line) # <<>> /\ ~startswith(line, <<Hash>>))
    IN  [k \in 1..Len(kept) |-> strip(split(kept[k], Hash)[1])]

\* the loop over the encodings: the first that reads the file decides
RECURSIVE LoadWith(_, _)
LoadWith(file, encs) ==
    IF encs = <<>> THEN <<>>
    ELSE IF ReadAs(file, Head(encs)) # Unreadable
         THEN SourceLines(ReadAs(file, Head(encs)))
    ELSE LoadWith(file, Tail(encs))

load_sources(file) == LoadWith(file, Encodings)

----------------------------------------------------------------------------
(* The instance and run()                                                  *)

EmptyDict == [r \in {} |-> <<>>]

NewTask(url) ==
    [pc |-> "queued", url |-> url, resp |-> NoResponse,
     content |-> <<>>, raw |-> {}, pruned |-> {}]

Tasks == 1..Len(sources)

\* the calls of process_source that a pool thread is executing
Running ==
    {i \in Tasks :
        task[i].pc \in {"fetching", "downloaded", "computed", "locked", "released"}}

\* list(exe.map(...)) and the exit of the with block
AllWorkersFinished == \A i \in Tasks : task[i].pc = "finished"

RunInit ==
    /\ pc = "idle"
    /\ run_no = 0
    /\ sources = <<>>
    /\ task = <<>>
    /\ lock = 0
    /\ source_pruned = <<>>
    /\ rule_sources = EmptyDict
    /\ report = EmptyDict

\* run, lines 76-84: load the sources and hand every one to the pool
StartRun(file) ==
    /\ run_no' = run_no + 1
    /\ sources' = load_sources(file)
    /\ task' = [i \in 1..Len(load_sources(file)) |-> NewTask(load_sources(file)[i])]
    /\ report' = EmptyDict
    /\ pc' = "map"
    /\ UNCHANGED <<lock, source_pruned, rule_sources>>
    /\ UNCHANGED <<normVars, pruneVars>>

\* DuplicateChecker().run(): the first call on a new instance
RunStart ==
    /\ pc = "idle"
    /\ \E file \in SourceFiles : StartRun(file)

\* a second call of run() on the same instance, after the first returned
RunAgain ==
    /\ pc = "done"
    /\ run_no = 1
    /\ \E file \in SourceFiles : StartRun(file)

\* the pool: a thread takes the oldest queued call and enters
\* process_source, up to requests.get; at most max_workers calls are running
Take(i) ==
    /\ pc = "map"
    /\ task[i].pc = "queued"
    /\ \A j \in 1..(i - 1) : task[j].pc # "queued"
    /\ Cardinality(Running) < max_workers
    /\ task' = [task EXCEPT ![i].pc = "fetching"]
    /\ UNCHANGED <<pc, run_no, sources, lock, source_pruned, rule_sources, report>>
    /\ UNCHANGED <<normVars, pruneVars>>

\* process_source, line 55: requests.get of call i answers, in any order
\* among the calls that wait for their answer, and download returns
Download(i) ==
    /\ pc = "map"
    /\ task[i].pc = "fetching"
    /\ \E resp \in ResponsesTo(task[i].url) :
          task' = [task EXCEPT ![i].pc = "downloaded",
                               ![i].resp = resp,
                               ![i].content = download(resp)]
    /\ UNCHANGED <<pc, run_no, sources, lock, source_pruned, rule_sources, report>>
    /\ UNCHANGED <<normVars, pruneVars>>

\* process_source, lines 56-57
Compute(i) ==
    /\ pc = "map"
    /\ task[i].pc = "downloaded"
    /\ LET raw == extract_rules(task[i].content) IN
       task' = [task EXCEPT ![i].pc = "computed",
                            ![i].raw = raw,
                            ![i].pruned = prune_subdomain(raw)]
    /\ UNCHANGED <<pc, run_no, sources, lock, source_pruned, rule_sources, report>>
    /\ UNCHANGED <<normVars, pruneVars>>

\* process_source, line 59: with self.lock
Acquire(i) ==
    /\ pc = "map"
    /\ task[i].pc = "computed"
    /\ lock = 0
    /\ lock' = i
    /\ task' = [task EXCEPT ![i].pc = "locked"]
    /\ UNCHANGED <<pc, run_no, sources, source_pruned, rule_sources, report>>
    /\ UNCHANGED <<normVars, pruneVars>>

\* process_source, lines 59-60: the write and the end of the with block,
\* which releases the lock
Store(i) ==
    /\ task[i].pc = "locked"
    /\ lock = i
    /\ source_pruned' = DictSet(source_pruned, task[i].url, task[i].pruned)
    /\ lock' = 0
    /\ task' = [task EXCEPT ![i].pc = "released"]
    /\ UNCHANGED <<pc, run_no, sources, rule_sources, report>>
    /\ UNCHANGED <<normVars, pruneVars>>

\* process_source, line 61: the print, after which the call returns and
\* its pool thread is free
Return(i) ==
    /\ task[i].pc = "released"
    /\ task' = [task EXCEPT ![i].pc = "finished"]
    /\ UNCHANGED <<pc, run_no, sources, lock, source_pruned, rule_sources, report>>
    /\ UNCHANGED <<normVars, pruneVars>>

\* run, lines 84-88: every result is in, the pool is shut down
Join ==
    /\ pc = "map"
    /\ AllWorkersFinished
    /\ pc' = "stage2"
    /\ UNCHANGED <<run_no, sources, task, lock, source_pruned, rule_sources, report>>
    /\ UNCHANGED <<normVars, pruneVars>>

\* run, lines 90-104
Aggregate ==
    /\ pc = "stage2"
    /\ rule_sources' = BuildRuleSources(rule_sources, source_pruned)
    /\ report' = BuildReport(source_pruned, rule_sources')
    /\ pc' = "done"
    /\ UNCHANGED <<run_no, sources, task, lock, source_pruned>>
    /\ UNCHANGED <<normVars, pruneVars>>

NormOff  == n_pc = "off" /\ n_line = <<>> /\ n_result = <<>> /\ n_again = <<>>
PruneOff == p_pc = "off" /\ p_rules = {} /\ p_kept = {} /\ p_again = {}
RunOff   == /\ pc = "off" /\ run_no = 0 /\ sources = <<>> /\ task = <<>> /\ lock = 0
            /\ source_pruned = <<>> /\ rule_sources = EmptyDict /\ report = EmptyDict

Init == RunInit /\ NormOff /\ PruneOff
Next ==
    \/ RunStart
    \/ RunAgain
    \/ \E i \in Tasks : Take(i)
    \/ \E i \in Tasks : Download(i)
    \/ \E i \in Tasks : Compute(i)
    \/ \E i \in Tasks : Acquire(i)
    \/ \E i \in Tasks : Store(i)
    \/ \E i \in Tasks : Return(i)
    \/ Join
    \/ Aggregate
Spec == Init /\ [][Next]_vars

----------------------------------------------------------------------------
(* normalize on one line: the lines are <prefix><body><suffix>, the body   *)
(* any text of at most MaxBody characters over BodyAlphabet, its letter    *)
(* written as a, A, U+212A KELVIN SIGN or U+0130.                          *)

BodyAlphabet == {CP("a"), CP("1"), Hyphen, Dot}

Bodies == UNION {[1..k -> BodyAlphabet] : k \in 0..MaxBody}

KelvinSign  == 8490
DottedI     == 304
NoBreakSpace == 160
LineTab     == 11

Wrappers ==
    { [pre |-> Bars,                  suf |-> Caret,                    letter |-> CP("a")],
      [pre |-> Bars,                  suf |-> Caret,                    letter |-> CP("A")],
      [pre |-> Str(<<" ","\t">>) \o Bars, suf |-> Caret \o Str(<<" ","\r","\n">>), letter |-> CP("a")],
      [pre |-> Str(<<" ">>) \o Bars,    suf |-> Caret \o Str(<<"\t">>),     letter |-> CP("A")],
      [pre |-> <<LineTab>> \o Bars,   suf |-> Caret \o <<NoBreakSpace>>, letter |-> CP("a")],
      [pre |-> Bars,                  suf |-> Caret,                    letter |-> KelvinSign],
      [pre |-> Bars,                  suf |-> Caret,                    letter |-> DottedI],
      [pre |-> Str(<<"|">>),            suf |-> Caret,                    letter |-> CP("a")],
      [pre |-> Bars,                  suf |-> <<>>,                     letter |-> CP("a")],
      [pre |-> Bars,                  suf |-> <<Dollar>> \o Caret,      letter |-> CP("a")],
      [pre |-> Bars,                  suf |-> Caret \o <<Dollar>>,      letter |-> CP("a")],
      [pre |-> Bars \o Str(<<"|">>),    suf |-> Caret,                    letter |-> CP("a")],
      [pre |-> Bars,                  suf |-> Caret \o Caret,           letter |-> CP("a")],
      [pre |-> Bars \o Str(<<" ">>),    suf |-> Caret,                    letter |-> CP("a")],
      [pre |-> <<>>,                  suf |-> <<>>,                     letter |-> CP("a")] }

LineOf(w, body) ==
    w.pre \o [i \in 1..Len(body) |-> IF body[i] = CP("a") THEN w.letter ELSE body[i]]
          \o w.suf

NormInit ==
    /\ n_pc = "input"
    /\ n_line \in {LineOf(w, b) : w \in Wrappers, b \in Bodies}
    /\ n_result = <<>>
    /\ n_again = <<>>

\* normalize(line)
NormalizeLine ==
    /\ n_pc = "input"
    /\ n_result' = normalize(n_line)
    /\ n_pc' = "normalized"
    /\ UNCHANGED <<n_line, n_again>>
    /\ UNCHANGED <<runVars, pruneVars>>

\* normalize(normalize(line)), for a line that was accepted
NormalizeAgain ==
    /\ n_pc = "normalized"
    /\ n_result # <<>>
    /\ n_again' = normalize(n_result)
    /\ n_pc' = "renormalized"
    /\ UNCHANGED <<n_line, n_result>>
    /\ UNCHANGED <<runVars, pruneVars>>

InitNormalize == NormInit /\ RunOff /\ PruneOff
NextNormalize == NormalizeLine \/ NormalizeAgain
SpecNormalize == InitNormalize /\ [][NextNormalize]_vars

----------------------------------------------------------------------------
(* prune_subdomain on one rule set: the set is built as extract_rules      *)
(* builds it, from lines '||<domain>^' whose domains have 2..MaxDepth      *)
(* labels, the last one "uk", the others "co" or "aco".                    *)

PLabels == {Str(<<"c","o">>), Str(<<"a","c","o">>)}
PTld    == Str(<<"u","k">>)

RECURSIVE LabelSeqs(_)
LabelSeqs(n) ==
    IF n = 1 THEN {<<PTld>>}
    ELSE {<<l>> \o ls : l \in PLabels, ls \in LabelSeqs(n - 1)}

PLines ==
    {Bars \o join(ls, Dot) \o Caret :
        ls \in UNION {LabelSeqs(n) : n \in 2..MaxDepth}}

PruneInit ==
    /\ p_pc = "build"
    /\ p_rules = {}
    /\ p_kept = {}
    /\ p_again = {}

\* extract_rules: one more line is normalized into the set
AddRule(line) ==
    /\ p_pc = "build"
    /\ normalize(line) # <<>>
    /\ normalize(line) \notin p_rules
    /\ Cardinality(p_rules) < MaxRules
    /\ p_rules' = p_rules \cup {normalize(line)}
    /\ UNCHANGED <<p_pc, p_kept, p_again>>
    /\ UNCHANGED <<runVars, normVars>>

\* prune_subdomain(rules)
Prune ==
    /\ p_pc = "build"
    /\ p_kept' = prune_subdomain(p_rules)
    /\ p_pc' = "pruned"
    /\ UNCHANGED <<p_rules, p_again>>
    /\ UNCHANGED <<runVars, normVars>>

\* prune_subdomain(prune_subdomain(rules))
PruneAgain ==
    /\ p_pc = "pruned"
    /\ p_again' = prune_subdomain(p_kept)
    /\ p_pc' = "repruned"
    /\ UNCHANGED <<p_rules, p_kept>>
    /\ UNCHANGED <<runVars, normVars>>

InitPrune == PruneInit /\ RunOff /\ NormOff
NextPrune ==
    \/ \E line \in PLines : AddRule(line)
    \/ Prune
    \/ PruneAgain
SpecPrune == InitPrune /\ [][NextPrune]_vars

----------------------------------------------------------------------------
(* Vocabulary of the properties                                            *)

\* the <domain> of a rule '||<domain>^'
DomainOf(rule) == SubSeq(rule, 3, Len(rule) - 1)

\* the labels of y's domain are a non-empty proper suffix of those of x's
IsStrictSubdomain(x, y) ==
    LET dx == DomainOf(x)
        dy == DomainOf(y)
    IN  /\ Len(dy) > 0
        /\ Len(dx) > Len(dy)
        /\ dx[Len(dx) - Len(dy)] = Dot
        /\ SubSeq(dx, Len(dx) - Len(dy) + 1, Len(dx)) = dy

\* y's domain is x's domain without its first label
IsParent(x, y) ==
    /\ IsStrictSubdomain(x, y)
    /\ \A i \in 1..(Len(DomainOf(x)) - Len(DomainOf(y)) - 1) : DomainOf(x)[i] # Dot

NoSubdomainPair(S) == \A x \in S : \A y \in S : ~IsStrictSubdomain(x, y)

HasAncestorIn(r, S) == \E y \in S : IsStrictSubdomain(r, y)

Failed(i) == task[i].resp.status \in {"http_error", "exception"}

\* the rules of the content that the call i of process_source was given
ContentRules(i) == prune_subdomain(extract_rules(task[i].content))

CountIn(seq, u) == Cardinality({k \in 1..Len(seq) : seq[k] = u})

\* record rec says: total, duplicate, distinct = total - duplicate and
\* duplicate_rate = duplicate / max(total, 1)
SameRecord(rec, total, duplicate) ==
    /\ rec.total = total
    /\ rec.duplicate = duplicate
    /\ rec.distinct = total - duplicate
    /\ rec.duplicate_rate.den > 0
    /\ rec.duplicate_rate.num * Max(total, 1) = duplicate * rec.duplicate_rate.den

----------------------------------------------------------------------------
\* C1: no rule set produced by prune_subdomain in process_source, and no
\* rule set stored in source_pruned, holds two rules x, y with x's domain a
\* strict subdomain of y's.
C1_NoSubdomainPairStored ==
    /\ \A k \in 1..Len(source_pruned) : NoSubdomainPair(source_pruned[k].rules)
    /\ \A i \in Tasks :
          task[i].pc \in {"computed", "locked", "released", "finished"}
             => NoSubdomainPair(task[i].pruned)

\* a stored set from which a rule was pruned for a grandparent, with no rule
\* for its parent
C1_Witness ==
    \E i \in Tasks :
       /\ task[i].pc = "finished"
       /\ task[i].url \in Keys(source_pruned)
       /\ DictGet(source_pruned, task[i].url) = task[i].pruned
       /\ task[i].pruned # {}
       /\ \E x \in task[i].raw \ task[i].pruned :
             /\ HasAncestorIn(x, task[i].pruned)
             /\ ~\E y \in task[i].raw : IsParent(x, y)

----------------------------------------------------------------------------
\* C2: prune_subdomain(R) is exactly the set of rules of R that have no
\* ancestor rule in R; it is a subset of R, it is R when R has no ancestor
\* pair, and it is empty when R is.
C2_PruneKeepsExactlyTheRoots ==
    p_pc \in {"pruned", "repruned"} =>
       /\ p_kept = {r \in p_rules : ~HasAncestorIn(r, p_rules)}
       /\ p_kept \subseteq p_rules
       /\ (NoSubdomainPair(p_rules) => p_kept = p_rules)
       /\ (p_rules = {} => p_kept = {})

\* a pruned set that lost a rule and kept one whose domain ends with the text
\* of another domain without being its subdomain
C2_Witness ==
    /\ p_pc = "pruned"
    /\ p_kept # p_rules
    /\ \E r \in p_kept : \E y \in p_rules :
          /\ r # y
          /\ endswith(DomainOf(r), DomainOf(y))
          /\ ~IsStrictSubdomain(r, y)

----------------------------------------------------------------------------
\* C3 as stated: whenever R holds a rule and the rule of its parent domain,
\* prune_subdomain(R) excludes the first and includes the second.
C3_ParentAlwaysKept ==
    p_pc \in {"pruned", "repruned"} =>
       \A x \in p_rules : \A y \in p_rules :
          IsParent(x, y) => (x \notin p_kept /\ y \in p_kept)

\* C3 amended: whenever R holds a rule and the rule of its parent domain,
\* prune_subdomain(R) excludes the first; it includes the second exactly
\* when R holds no rule for an ancestor of the parent, which is always so
\* when the parent domain has two labels.
C3_ChildDroppedParentKeptUnlessCovered ==
    p_pc \in {"pruned", "repruned"} =>
       \A x \in p_rules : \A y \in p_rules :
          IsParent(x, y) =>
             /\ x \notin p_kept
             /\ (y \in p_kept <=> ~HasAncestorIn(y, p_rules))
             /\ (Len(split(DomainOf(y), Dot)) = 2 => y \in p_kept)

\* a rule set with a child, its parent and the parent's parent, pruned
C3_Witness ==
    /\ p_pc = "pruned"
    /\ \E x \in p_rules : \E y \in p_rules : \E z \in p_rules :
          /\ IsParent(x, y) /\ IsParent(y, z)
          /\ x \notin p_kept /\ y \notin p_kept /\ z \in p_kept

----------------------------------------------------------------------------
\* C4: prune_subdomain(prune_subdomain(R)) = prune_subdomain(R).
C4_PruneIdempotent ==
    p_pc = "repruned" => p_again = p_kept

\* a second pruning of a set that the first pruning had shrunk
C4_Witness ==
    /\ p_pc = "repruned"
    /\ p_kept # p_rules
    /\ Cardinality(p_kept) >= 2

----------------------------------------------------------------------------
(* C5: the accepted lines, said without the code's operations              *)

\* the line without leading and trailing whitespace, in lower case
Canonical(line) ==
    LET idx == {i \in 1..Len(line) : line[i] \notin Whitespace} IN
    IF idx = {} THEN <<>>
    ELSE LET lo == CHOOSE i \in idx : \A j \in idx : i <= j
             hi == CHOOSE i \in idx : \A j \in idx : j <= i
         IN  lower(SubSeq(line, lo, hi))

HasEnvelope(t) ==
    Len(t) >= 3 /\ t[1] = CP("|") /\ t[2] = CP("|") /\ t[Len(t)] = CP("^")

LabelOK(l) ==
    /\ Len(l) >= 1
    /\ \A i \in 1..Len(l) : l[i] \in AlNum \cup {Hyphen}
    /\ l[1] # Hyphen
    /\ l[Len(l)] # Hyphen

\* labels of alphanumerics/hyphens with no hyphen first or last, at least
\* one dot, the final label alphabetic and of length >= 2
GrammarOK(b) ==
    LET dots == {i \in 1..Len(b) : b[i] = Dot}
        cuts == {0} \cup dots \cup {Len(b) + 1}
        last == CHOOSE i \in dots : \A j \in dots : j <= i
    IN  /\ dots # {}
        /\ \A p \in cuts : \A q \in cuts :
              (p < q /\ ~\E m \in cuts : p < m /\ m < q)
                 => LabelOK(SubSeq(b, p + 1, q - 1))
        /\ Len(b) - last >= 2
        /\ \A i \in (last + 1)..Len(b) : b[i] \in AZ

\* C5: normalize returns the trimmed, lowercased line exactly when it has the
\* envelope '||<body>^', holds no '$' and its body satisfies the label
\* grammar, and the empty string otherwise; normalize of a non-empty result
\* is that result.
C5_NormalizeAcceptsExactlyTheGrammar ==
    n_pc \in {"normalized", "renormalized"} =>
       LET t  == Canonical(n_line)
           ok == /\ HasEnvelope(t)
                 /\ Dollar \notin Range(t)
                 /\ GrammarOK(SubSeq(t, 3, Len(t) - 1))
       IN  /\ n_result = (IF ok THEN t ELSE <<>>)
           /\ (n_pc = "renormalized" => n_again = n_result)

\* an accepted line that had to be trimmed and lowercased, with a hyphen and
\* a digit in its labels, normalized twice
C5_Witness ==
    /\ n_pc = "renormalized"
    /\ n_result # <<>>
    /\ Len(n_result) < Len(n_line)
    /\ CP("A") \in Range(n_line)
    /\ Hyphen \in Range(n_result)
    /\ CP("1") \in Range(n_result)

----------------------------------------------------------------------------
\* C6: every record of the report has distinct + duplicate = total,
\* 0 <= duplicate <= total, 0 <= duplicate_rate <= 1 with duplicate_rate =
\* duplicate / max(total, 1), and duplicate_rate = 0 when total = 0.
C6_ReportCountsAddUp ==
    \A u \in DOMAIN report :
       LET rec == report[u] IN
       /\ rec.distinct + rec.duplicate = rec.total
       /\ 0 <= rec.duplicate /\ rec.duplicate <= rec.total
       /\ rec.duplicate_rate.den > 0
       /\ 0 <= rec.duplicate_rate.num
       /\ rec.duplicate_rate.num <= rec.duplicate_rate.den
       /\ rec.duplicate_rate.num * Max(rec.total, 1)
             = rec.duplicate * rec.duplicate_rate.den
       /\ (rec.total = 0 => rec.duplicate_rate.num = 0)

\* the report of a first run with a source that has both a duplicate and a
\* distinct rule
C6_Witness ==
    /\ pc = "done"
    /\ run_no = 1
    /\ \E v \in DOMAIN report : report[v].duplicate > 0 /\ report[v].distinct > 0

----------------------------------------------------------------------------
\* C7 as stated: after the aggregation stage, rule_sources[r] lists exactly
\* the sources whose pruned set holds r, each once; duplicate of a source is
\* the number of its rules that another source's pruned set holds too, and
\* total is the size of its own pruned set.
C7_IndexAndCountsMatchPrunedSets ==
    pc = "done" =>
       /\ \A u \in Keys(source_pruned) : \A r \in DictGet(source_pruned, u) :
             r \in DOMAIN rule_sources
       /\ \A r \in DOMAIN rule_sources : \A u \in Range(rule_sources[r]) :
             u \in Keys(source_pruned)
       /\ \A r \in DOMAIN rule_sources : \A u \in Keys(source_pruned) :
             CountIn(rule_sources[r], u)
                = (IF r \in DictGet(source_pruned, u) THEN 1 ELSE 0)
       /\ \A u \in Keys(source_pruned) :
             /\ report[u].total = Cardinality(DictGet(source_pruned, u))
             /\ report[u].duplicate =
                   Cardinality({r \in DictGet(source_pruned, u) :
                      \E v \in Keys(source_pruned) \ {u} :
                         r \in DictGet(source_pruned, v)})

----------------------------------------------------------------------------
\* C8 as stated: a source whose fetch failed is given empty content, is
\* stored in source_pruned with an empty rule set and is reported with
\* total = 0, duplicate = 0, distinct = 0 and duplicate_rate = 0, and the
\* run goes on to its report.
C8_FetchFailureIsEmptySource ==
    /\ \A i \in Tasks :
          (Failed(i) /\ task[i].pc # "queued") => task[i].content = <<>>
    /\ pc \in {"stage2", "done"} =>
          \A i \in Tasks : Failed(i) =>
             /\ task[i].url \in Keys(source_pruned)
             /\ DictGet(source_pruned, task[i].url) = {}
    /\ pc = "done" =>
          \A i \in Tasks : Failed(i) =>
             /\ task[i].url \in DOMAIN report
             /\ SameRecord(report[task[i].url], 0, 0)
             /\ report[task[i].url].duplicate_rate.num = 0

----------------------------------------------------------------------------
\* C9 as stated: when aggregation starts every worker has finished and
\* released the lock, and source_pruned holds for every configured source
\* the entry that its worker computed; the totals of the report are those of
\* the contents the workers were given, whatever the order in which the
\* workers finished.
C9_AggregationAfterAllWorkers ==
    /\ Cardinality(Running) <= max_workers
    /\ pc \in {"stage2", "done"} =>
          /\ \A i \in Tasks : task[i].pc = "finished"
          /\ lock = 0
          /\ \A i \in Tasks :
                /\ task[i].url \in Keys(source_pruned)
                /\ DictGet(source_pruned, task[i].url) = ContentRules(i)
    /\ pc = "done" =>
          \A i \in Tasks :
             report[task[i].url].total = Cardinality(ContentRules(i))

----------------------------------------------------------------------------
\* C10 as stated: the report of a call of run is determined by the sources
\* and contents of that call only: it has a record for the sources of the
\* call and no other, total is the size of the source's pruned set and
\* duplicate the number of its rules that another source of the call has,
\* whatever the instance did before.
C10_ReportFromThisRunOnly ==
    pc = "done" =>
       /\ DOMAIN report = Range(sources)
       /\ \A u \in Range(sources) :
             SameRecord(report[u], Cardinality(DictGet(source_pruned, u)),
                Cardinality({r \in DictGet(source_pruned, u) :
                   \E v \in Range(sources) \ {u} : r \in DictGet(source_pruned, v)}))

=============================================================================
